---- MODULE Spec2Model ----
(***************************************************************************)
(* A model of cutr (src/src/lib.rs): the position-list parser parse_pos,   *)
(* the extractors extract_chars / extract_bytes / extract_fields, and the  *)
(* per-file loop of run.                                                   *)
(*                                                                         *)
(* A selection string is a sequence of one-character strings; a line (a    *)
(* &str or String of the extractors) is the sequence of its UTF-8 bytes,   *)
(* integers in 0..255; a char is its scalar value; a Range<usize> is a     *)
(* record [start, end].                                                    *)
(***************************************************************************)
EXTENDS Integers, Sequences, FiniteSets, TLC

VARIABLES
    pc,        \* position of the modelled call
    range,     \* parse_pos: the selection string
    ret,       \* parse_pos: the returned Result
    extract,   \* Config.extract: [kind, pos]
    input,     \* the unit handed to an extractor: a line, or a record
    out,       \* the extractor's return value
    files,     \* run: config.files, each what opening and reading it gives
    fi,        \* run: index of the file being processed
    li,        \* run: index of the next line / record of that file
    stdout,    \* run: what println! wrote
    stderr,    \* run: what eprintln! wrote
    result     \* run: the returned MyResult<()>

vars == <<pc, range, ret, extract, input, out, files, fi, li, stdout, stderr, result>>

(***************************************************************************)
(* Bounds of the model.                                                    *)
(***************************************************************************)
MaxLen == 4
MaxLine == 3
MaxFields == 2
MaxPos == 3
MaxRanges == 2
MaxFiles == 2
MaxReads == 2

(***************************************************************************)
(* Strings.                                                                *)
(***************************************************************************)
Digits == <<"0", "1", "2", "3", "4", "5", "6", "7", "8", "9">>

IsDigit(c) == \E i \in 1..10 : Digits[i] = c

DigitVal(c) == (CHOOSE i \in 1..10 : Digits[i] = c) - 1

\* str::is_empty
is_empty(s) == Len(s) = 0

\* mutant: the test for a leading '+' left out
starts_with_plus_never(s) == FALSE

\* str::starts_with("+")
starts_with_plus(s) == Len(s) > 0 /\ s[1] = "+"

Tail2(s, i) == SubSeq(s, i, Len(s))

RECURSIVE split(_, _)
\* str::split(sep).collect::<Vec<_>>(): n separators give n + 1 pieces,
\* empty pieces included.
split(s, sep) ==
    IF \A i \in 1..Len(s) : s[i] # sep
    THEN <<s>>
    ELSE LET i == CHOOSE k \in 1..Len(s) :
                      s[k] = sep /\ \A j \in 1..(k - 1) : s[j] # sep
         IN <<SubSeq(s, 1, i - 1)>> \o split(Tail2(s, i + 1), sep)

RECURSIVE join(_, _)
\* [T]::join(sep)
join(pieces, sep) ==
    IF Len(pieces) = 0 THEN <<>>
    ELSE IF Len(pieces) = 1 THEN pieces[1]
    ELSE pieces[1] \o sep \o join(Tail(pieces), sep)

RECURSIVE StripZeros(_)
\* the digits of a number without its leading zeros ("000" gives "0")
StripZeros(ds) ==
    IF Len(ds) > 1 /\ ds[1] = "0" THEN StripZeros(Tail(ds)) ELSE ds

RECURSIVE DigitsValue(_)
DigitsValue(ds) ==
    IF Len(ds) = 0 THEN 0
    ELSE 10 * DigitsValue(SubSeq(ds, 1, Len(ds) - 1)) + DigitVal(ds[Len(ds)])

RECURSIVE FmtUsize(_)
\* format!("{}", n) of a usize: canonical decimal
FmtUsize(n) ==
    IF n < 10 THEN <<Digits[n + 1]>>
    ELSE FmtUsize(n \div 10) \o <<Digits[(n % 10) + 1]>>

\* usize::MAX on a 64-bit target, as digits (2^64 - 1 does not fit an
\* integer of the checker, so overflow is decided on the digits)
UsizeMaxDigits ==
    <<"1", "8", "4", "4", "6", "7", "4", "4", "0", "7",
      "3", "7", "0", "9", "5", "5", "1", "6", "1", "5">>

\* a > b for two digit strings without leading zeros
DigitsGreater(a, b) ==
    \/ Len(a) > Len(b)
    \/ /\ Len(a) = Len(b)
       /\ \E k \in 1..Len(a) :
            /\ DigitVal(a[k]) > DigitVal(b[k])
            /\ \A j \in 1..(k - 1) : a[j] = b[j]

\* str::parse::<usize>(): an optional single leading '+', then one or more
\* decimal digits; Err on an empty string, a lone sign, any other character
\* (InvalidDigit), or a value above usize::MAX (PosOverflow).
parse_usize(s) ==
    LET ds == IF Len(s) > 1 /\ s[1] = "+" THEN Tail(s) ELSE s
    IN IF Len(ds) = 0 \/ \E i \in 1..Len(ds) : ~IsDigit(ds[i])
       THEN [ok |-> FALSE]
       ELSE IF DigitsGreater(StripZeros(ds), UsizeMaxDigits)
       THEN [ok |-> FALSE]
       ELSE [ok |-> TRUE, val |-> DigitsValue(ds)]

(***************************************************************************)
(* parse_pos.  A Result is [ok |-> TRUE, ...] or [ok |-> FALSE, msg |-> m],*)
(* m the error's Display text.                                             *)
(***************************************************************************)

\* the closure value_error
value_error(v) == <<"illegal list value: \"">> \o v \o <<"\"">>

EmptyListMsg == <<"position lists cannot be empty">>

InvertedMsg(lower, upper) ==
    <<"First number in range (">> \o FmtUsize(lower)
        \o <<") must be lower than second number (">> \o FmtUsize(upper)
        \o <<")">>

Err(m) == [ok |-> FALSE, msg |-> m]

\* mutant: a zero endpoint reported with the text of its part
ParseEndpointZeroNamesPart(endpoint, part) ==
    IF starts_with_plus(endpoint)
    THEN Err(value_error(part))
    ELSE LET bound == parse_usize(endpoint)
         IN IF ~bound.ok \/ bound.val = 0 THEN Err(value_error(part))
            ELSE [ok |-> TRUE, val |-> bound.val]

\* the closure mapped over the endpoints of a part
ParseEndpoint(endpoint, part) ==
    IF starts_with_plus(endpoint)
    THEN Err(value_error(part))
    ELSE LET bound == parse_usize(endpoint)
         IN IF ~bound.ok THEN Err(value_error(part))
            ELSE IF bound.val = 0 THEN Err(value_error(<<"0">>))
            ELSE [ok |-> TRUE, val |-> bound.val]

RECURSIVE CollectBounds(_, _)
\* .map(closure).collect::<Result<Vec<_>, _>>(): the endpoints are mapped
\* in order and the first Err ends the collection
CollectBounds(interval, part) ==
    IF Len(interval) = 0 THEN [ok |-> TRUE, bounds |-> <<>>]
    ELSE LET b == ParseEndpoint(interval[1], part)
         IN IF ~b.ok THEN b
            ELSE LET rest == CollectBounds(Tail(interval), part)
                 IN IF ~rest.ok THEN rest
                    ELSE [ok |-> TRUE, bounds |-> <<b.val>> \o rest.bounds]

\* mutant: the 1-based number kept as the 0-based start
SingleRangeOneBased(lower) == [start |-> lower, end |-> lower + 1]

\* the range pushed for a single number
SingleRange(lower) == [start |-> lower - 1, end |-> lower]

\* mutant: the lower number not shifted to 0-based
PairRangeOneBased(lower, upper) == [start |-> lower, end |-> upper]

\* the range pushed for "lower-upper"
PairRange(lower, upper) == [start |-> lower - 1, end |-> upper]

\* mutant: equal numbers let through
IsInvertedStrict(lower, upper) == lower > upper

\* the check on the two numbers of a part
IsInverted(lower, upper) == lower >= upper

\* the body of the loop over the parts: the range to push, or the error
ParsePart(part, whole) ==
    IF is_empty(part) THEN Err(value_error(whole))
    ELSE LET interval == split(part, "-")
         IN IF Len(interval) > 2
            THEN Err(value_error(whole))
            ELSE LET bounds == CollectBounds(interval, part)
                 IN IF ~bounds.ok THEN bounds
                    ELSE LET lower == bounds.bounds[1]
                         IN IF Len(bounds.bounds) = 1
                            THEN [ok |-> TRUE, rng |-> SingleRange(lower)]
                            ELSE LET upper == bounds.bounds[2]
                                 IN IF upper = 0
                                    THEN Err(value_error(<<"0">>))
                                    ELSE IF IsInverted(lower, upper)
                                    THEN Err(InvertedMsg(lower, upper))
                                    ELSE [ok |-> TRUE,
                                          rng |-> PairRange(lower, upper)]

RECURSIVE ParseLoopLastError(_, _, _)
\* mutant: every part is parsed and the last error wins
ParseLoopLastError(parts, whole, list) ==
    IF Len(parts) = 0 THEN [ok |-> TRUE, list |-> list]
    ELSE LET r == ParsePart(parts[1], whole)
             rest == ParseLoopLastError(Tail(parts), whole,
                         IF r.ok THEN Append(list, r.rng) ELSE list)
         IN IF ~rest.ok THEN rest ELSE IF ~r.ok THEN r ELSE rest

RECURSIVE ParseLoop(_, _, _)
\* for part in parts { ... }; Ok(list)
ParseLoop(parts, whole, list) ==
    IF Len(parts) = 0 THEN [ok |-> TRUE, list |-> list]
    ELSE LET r == ParsePart(parts[1], whole)
         IN IF ~r.ok THEN r
            ELSE ParseLoop(Tail(parts), whole, Append(list, r.rng))

parse_pos(s) ==
    IF is_empty(s) THEN Err(EmptyListMsg)
    ELSE ParseLoop(split(s, ","), s, <<>>)

(***************************************************************************)
(* The selection strings tried: every string of at most MaxLen characters  *)
(* over Alphabet, and the strings of the unit test test_parse_pos with a   *)
(* few longer ones (among them numbers that do not fit a usize).           *)
(***************************************************************************)
Alphabet == {"0", "1", "2", "+", "-", ",", "a"}

Strs(n) == UNION {[1..k -> Alphabet] : k \in 0..n}

Big == <<"2", "2", "2", "2", "2", "2", "2", "2", "2", "2",
         "2", "2", "2", "2", "2", "2", "2", "2", "2", "2">>

ExtraInputs ==
    { <<"1", ",", "7", ",", "3", "-", "5">>,
      <<"1", "5", ",", "1", "9", "-", "2", "0">>,
      <<"0", "0", "0", "1", "-", "0", "3">>,
      <<"0", "0", "1", ",", "0", "0", "0", "3">>,
      <<"0", "1", ",", "2", "-", "0", "3">>,
      <<"2", ",", "1", "-", "1", "-", "1">>,
      <<"1", "-", "1", "-", "a">>,
      <<"1", "-", "1", ",", "0">>,
      <<"0", ",", "1", "-", "1">>,
      <<"1", "0", "-", "9">>,
      <<"9", "-", "1", "0">>,
      Big,
      Big \o <<"-", "0">>,
      <<"0", "-">> \o Big,
      <<"1", "-">> \o Big,
      Big \o <<",", "1">>,
      <<"1", ",", "0", "-">> \o Big }

Inputs == Strs(MaxLen) \cup ExtraInputs

NoRet == [ok |-> FALSE, msg |-> <<>>]

NoExtract == [kind |-> "None", pos |-> <<>>]

InitParse ==
    /\ pc = "start"
    /\ range \in Inputs
    /\ ret = NoRet
    /\ extract = NoExtract
    /\ input = <<>>
    /\ out = <<>>
    /\ files = <<>>
    /\ fi = 0
    /\ li = 0
    /\ stdout = <<>>
    /\ stderr = <<>>
    /\ result = "none"

\* a call of parse_pos(range)
ParsePosCall ==
    /\ pc = "start"
    /\ pc' = "parsed"
    /\ ret' = parse_pos(range)
    /\ UNCHANGED <<range, extract, input, out, files, fi, li, stdout, stderr, result>>

NextParse == ParsePosCall

SpecParse == InitParse /\ [][NextParse]_vars

(***************************************************************************)
(* What the claims about parse_pos speak of, said on the text of the       *)
(* selection string alone.                                                 *)
(***************************************************************************)
Parsed == pc = "parsed"

Parts == split(range, ",")

Segments(part) == split(part, "-")

\* one or more decimal digits
WellFormed(seg) == Len(seg) > 0 /\ \A i \in 1..Len(seg) : IsDigit(seg[i])

\* a well-formed number of value 0
IsZero(seg) == WellFormed(seg) /\ StripZeros(seg) = <<"0">>

\* a well-formed number that a usize holds
Fits(seg) == WellFormed(seg) /\ ~DigitsGreater(StripZeros(seg), UsizeMaxDigits)

\* a well-formed, representable number of value at least 1
Positive(seg) == Fits(seg) /\ ~IsZero(seg)

\* a < b as numbers, for two well-formed numbers
NumLess(a, b) == DigitsGreater(StripZeros(b), StripZeros(a))

\* a part that is a position "N" or a range "L-U" with 1 <= L < U
PartValid(part) ==
    LET iv == Segments(part)
    IN /\ Len(iv) <= 2
       /\ \A i \in 1..Len(iv) : Positive(iv[i])
       /\ Len(iv) = 2 => NumLess(iv[1], iv[2])

\* the index of the leftmost invalid part, 0 when every part is valid
FirstBad ==
    IF \A k \in 1..Len(Parts) : PartValid(Parts[k]) THEN 0
    ELSE CHOOSE k \in 1..Len(Parts) :
            /\ ~PartValid(Parts[k])
            /\ \A j \in 1..(k - 1) : PartValid(Parts[j])

BadPart == Parts[FirstBad]

ZeroError == Err(value_error(<<"0">>))

\* C1: an accepted selection string gives one range per comma-separated
\* part, in the order of the parts: "N" gives [N-1, N) and "L-U" gives
\* [L-1, U), leading zeros ignored; so 0 <= start < end for every range.
C1_OneRangePerPart ==
    (Parsed /\ ret.ok) =>
        /\ Len(ret.list) = Len(Parts)
        /\ \A i \in 1..Len(Parts) :
             LET iv == Segments(Parts[i])
                 r == ret.list[i]
             IN /\ 0 <= r.start /\ r.start < r.end
                /\ Len(iv) \in {1, 2}
                /\ StripZeros(iv[1]) = FmtUsize(r.start + 1)
                /\ StripZeros(iv[Len(iv)]) = FmtUsize(r.end)
                /\ Len(iv) = 1 => r.end = r.start + 1

C1_Witness ==
    /\ Parsed /\ ret.ok
    /\ Len(ret.list) = 3
    /\ ret.list[2].start > ret.list[3].start
    /\ ret.list[3].end > ret.list[3].start + 1

\* the case of C3: the leftmost invalid part has one or two endpoints, all
\* well-formed numbers, and one of them is zero
C3_Case ==
    /\ Parsed /\ FirstBad > 0
    /\ LET iv == Segments(BadPart)
       IN /\ Len(iv) <= 2
          /\ \A i \in 1..Len(iv) : WellFormed(iv[i])
          /\ \E i \in 1..Len(iv) : IsZero(iv[i])

\* C3 as stated: whenever the endpoints of a part are all well-formed
\* numbers and one of them is zero, the error is illegal list value: "0".
C3_ZeroAlwaysCanonical == C3_Case => ret = ZeroError

\* C3 (amended): ... and no endpoint before the first zero endpoint exceeds
\* usize::MAX, the error is illegal list value: "0".
C3_ZeroCanonical ==
    (C3_Case /\ LET iv == Segments(BadPart)
                IN \E i \in 1..Len(iv) :
                      IsZero(iv[i]) /\ \A j \in 1..(i - 1) : Fits(iv[j]))
        => ret = ZeroError

C3_Witness ==
    /\ C3_Case
    /\ Len(Segments(BadPart)) = 2
    /\ IsZero(Segments(BadPart)[2])
    /\ Len(Segments(BadPart)[2]) > 1
    /\ Positive(Segments(BadPart)[1])
    /\ ret = ZeroError

\* C4: a part "L-U" of two positive numbers is accepted only if L < U; when
\* L >= U the error is the inverted-range message with both numbers, never
\* an illegal-list-value message.
C4_StrictlyIncreasing ==
    Parsed =>
        \A k \in 1..Len(Parts) :
            LET iv == Segments(Parts[k])
            IN (/\ \A j \in 1..(k - 1) : PartValid(Parts[j])
                /\ Len(iv) = 2 /\ Positive(iv[1]) /\ Positive(iv[2]))
               => IF NumLess(iv[1], iv[2])
                  THEN (k = Len(Parts)) => ret.ok
                  ELSE ret = Err(<<"First number in range (">>
                                 \o StripZeros(iv[1])
                                 \o <<") must be lower than second number (">>
                                 \o StripZeros(iv[2]) \o <<")">>)

C4_Witness ==
    /\ Parsed /\ ~ret.ok /\ FirstBad > 0
    /\ LET iv == Segments(BadPart)
       IN /\ Len(iv) = 2 /\ Positive(iv[1]) /\ iv[1] = iv[2]
    /\ ret.msg[1] = "First number in range ("

\* the case of C5: the leftmost invalid part is not empty, has one or two
\* endpoints, and one of them is empty, not a number, or begins with '+'
C5_Case ==
    /\ Parsed /\ FirstBad > 0 /\ ~is_empty(BadPart)
    /\ LET iv == Segments(BadPart)
       IN /\ Len(iv) <= 2
          /\ \E i \in 1..Len(iv) : ~WellFormed(iv[i])

\* C5 as stated: such a part is named, as written, by the illegal list
\* value error, whatever its other endpoint is.
C5_AlwaysNamesPart == C5_Case => ret = Err(value_error(BadPart))

\* C5 (amended): such a part is named, as written, by the
\* error, unless an endpoint before its first malformed endpoint is a
\* well-formed zero, and then the error is illegal list value: "0".
C5_NamesPart ==
    C5_Case =>
        LET iv == Segments(BadPart)
            m == CHOOSE i \in 1..Len(iv) :
                    ~WellFormed(iv[i]) /\ \A j \in 1..(i - 1) : WellFormed(iv[j])
        IN IF \E j \in 1..(m - 1) : IsZero(iv[j])
           THEN ret = ZeroError
           ELSE ret = Err(value_error(BadPart))

C5_Witness ==
    /\ C5_Case
    /\ Len(Segments(BadPart)) = 2
    /\ starts_with_plus(Segments(BadPart)[2])
    /\ Positive(Segments(BadPart)[1])
    /\ ret = Err(value_error(BadPart))

\* C6: a part with more than two dash-separated segments is named by the
\* illegal value error: the part, not the entire selection string.
C6_TooManySegmentsNamesPart ==
    (Parsed /\ FirstBad > 0 /\ Len(Segments(BadPart)) > 2)
        => ret = Err(value_error(BadPart))

\* the selection string that writes a PositionList back, 1-based
RangeText(r) ==
    IF r.end = r.start + 1 THEN FmtUsize(r.start + 1)
    ELSE FmtUsize(r.start + 1) \o <<"-">> \o FmtUsize(r.end)

Serialize(list) == join([i \in 1..Len(list) |-> RangeText(list[i])], <<",">>)

\* C7: the PositionList of an accepted selection string, written back in
\* 1-based notation and parsed again, gives an equal PositionList.
C7_RoundTrip ==
    (Parsed /\ ret.ok) => parse_pos(Serialize(ret.list)) = ret

C7_Witness ==
    /\ Parsed /\ ret.ok
    /\ Len(ret.list) >= 2
    /\ Serialize(ret.list) # range
    /\ \E i \in 1..Len(ret.list) : ret.list[i].end > ret.list[i].start + 1

\* parts put after the leftmost invalid part in place of what follows it
Followers == {<<"1">>, <<"0">>, <<"a">>}

\* the selection string cut after its leftmost invalid part, then f
WithFollower(f) == join(Append(SubSeq(Parts, 1, FirstBad), f), <<",">>)

\* C10 as stated: the error is that of the leftmost invalid part and is the
\* same whatever parts follow it; no partial list is returned.  (Stated
\* for a non-empty selection string and a leftmost invalid part of at most
\* two segments, where the echo of C6 plays no part.)
C10_ErrorIgnoresWhatFollows ==
    Parsed =>
        /\ ret.ok <=> FirstBad = 0
        /\ ~ret.ok =>
             /\ DOMAIN ret = {"ok", "msg"}
             /\ (~is_empty(range) /\ Len(Segments(BadPart)) <= 2) =>
                    \A f \in Followers : parse_pos(WithFollower(f)) = ret

\* C10 (amended): parsing fails exactly when some part is invalid and no
\* partial list is returned; the error is the one the leftmost invalid part
\* gives when parsed alone, whatever follows it, except that for an empty
\* part or a part of more than two segments it is the illegal list value
\* error echoing the entire selection string (and so the parts that
\* follow).
C10_FirstInvalidPartDecides ==
    Parsed =>
        /\ ret.ok <=> FirstBad = 0
        /\ ~ret.ok =>
             /\ DOMAIN ret = {"ok", "msg"}
             /\ IF is_empty(range) THEN ret = Err(EmptyListMsg)
                ELSE IF is_empty(BadPart) \/ Len(Segments(BadPart)) > 2
                THEN ret = Err(value_error(range))
                ELSE /\ ret = parse_pos(BadPart)
                     /\ \A f \in Followers : parse_pos(WithFollower(f)) = ret

C10_Witness ==
    /\ Parsed /\ ~ret.ok
    /\ FirstBad > 0 /\ FirstBad < Len(Parts)
    /\ ~is_empty(BadPart) /\ Len(Segments(BadPart)) <= 2
    /\ ~PartValid(Parts[Len(Parts)])
    /\ parse_pos(Parts[Len(Parts)]) # ret

(***************************************************************************)
(* The extractors.  A &str / String is its UTF-8 bytes; a StringRecord is  *)
(* the sequence of its fields.                                             *)
(***************************************************************************)

\* char::encode_utf8, as String::from_iter / collect::<String>() does it
Utf8Encode(c) ==
    IF c < 128 THEN <<c>>
    ELSE IF c < 2048 THEN <<192 + (c \div 64), 128 + (c % 64)>>
    ELSE IF c < 65536
    THEN <<224 + (c \div 4096), 128 + ((c \div 64) % 64), 128 + (c % 64)>>
    ELSE <<240 + (c \div 262144), 128 + ((c \div 4096) % 64),
           128 + ((c \div 64) % 64), 128 + (c % 64)>>

RECURSIVE CollectString(_)
\* .collect::<String>() of an iterator of chars
CollectString(cs) ==
    IF Len(cs) = 0 THEN <<>>
    ELSE Utf8Encode(cs[1]) \o CollectString(Tail(cs))

\* core::str::utf8_char_width
utf8_char_width(b) ==
    IF b < 128 THEN 1
    ELSE IF b >= 194 /\ b <= 223 THEN 2
    ELSE IF b >= 224 /\ b <= 239 THEN 3
    ELSE IF b >= 240 /\ b <= 244 THEN 4
    ELSE 0

\* a continuation byte 10xxxxxx
IsCont(b) == b >= 128 /\ b <= 191

RECURSIVE chars(_)
\* str::chars().collect::<Vec<_>>(): the scalar values of valid UTF-8
chars(bs) ==
    IF Len(bs) = 0 THEN <<>>
    ELSE LET b == bs[1]
             w == utf8_char_width(b)
             c == IF w = 1 THEN b
                  ELSE IF w = 2 THEN (b - 192) * 64 + (bs[2] - 128)
                  ELSE IF w = 3
                  THEN (b - 224) * 4096 + (bs[2] - 128) * 64 + (bs[3] - 128)
                  ELSE (b - 240) * 262144 + (bs[2] - 128) * 4096
                           + (bs[3] - 128) * 64 + (bs[4] - 128)
         IN <<c>> \o chars(Tail2(bs, w + 1))

\* the UTF-8 bytes of U+FFFD REPLACEMENT CHARACTER
ReplacementBytes == <<239, 191, 189>>

\* the second byte a three- or four-byte sequence may have after lead b
SecondByteOk(b, x) ==
    IF b = 224 THEN x >= 160 /\ x <= 191
    ELSE IF b = 237 THEN x >= 128 /\ x <= 159
    ELSE IF b = 240 THEN x >= 144 /\ x <= 191
    ELSE IF b = 244 THEN x >= 128 /\ x <= 143
    ELSE IsCont(x)

\* the length of the chunk at the head of bs (Utf8Chunks::next): the whole
\* sequence when it is valid, otherwise the lead byte with the bytes that
\* validly continue it; valid tells which
HeadChunk(bs) ==
    LET get(i) == IF i <= Len(bs) THEN bs[i] ELSE 0
        b == bs[1]
        w == utf8_char_width(b)
    IN IF w = 1 THEN [valid |-> TRUE, len |-> 1]
       ELSE IF w = 2
       THEN IF IsCont(get(2)) THEN [valid |-> TRUE, len |-> 2]
            ELSE [valid |-> FALSE, len |-> 1]
       ELSE IF w = 3
       THEN IF ~SecondByteOk(b, get(2)) THEN [valid |-> FALSE, len |-> 1]
            ELSE IF ~IsCont(get(3)) THEN [valid |-> FALSE, len |-> 2]
            ELSE [valid |-> TRUE, len |-> 3]
       ELSE IF w = 4
       THEN IF ~SecondByteOk(b, get(2)) THEN [valid |-> FALSE, len |-> 1]
            ELSE IF ~IsCont(get(3)) THEN [valid |-> FALSE, len |-> 2]
            ELSE IF ~IsCont(get(4)) THEN [valid |-> FALSE, len |-> 3]
            ELSE [valid |-> TRUE, len |-> 4]
       ELSE [valid |-> FALSE, len |-> 1]

\* mutant: what stands for an invalid chunk is nothing at all
InvalidChunkDropped == <<>>

\* what stands for an invalid chunk in the lossy decoding
InvalidChunkText == ReplacementBytes

RECURSIVE from_utf8_lossy(_)
\* String::from_utf8_lossy(..).into_owned(): valid sequences are copied,
\* every invalid chunk becomes one U+FFFD
from_utf8_lossy(bs) ==
    IF Len(bs) = 0 THEN <<>>
    ELSE LET h == HeadChunk(bs)
         IN (IF h.valid THEN SubSeq(bs, 1, h.len) ELSE InvalidChunkText)
                \o from_utf8_lossy(Tail2(bs, h.len + 1))

\* slice::get(i) / StringRecord::get(i) under filter_map: the element, or
\* nothing when i is out of bounds
Get(seq, i) == IF i < Len(seq) THEN <<seq[i + 1]>> ELSE <<>>

RECURSIVE RangeFilterMapRec(_, _, _)
RangeFilterMapRec(seq, i, end) ==
    IF i >= end THEN <<>>
    ELSE Get(seq, i) \o RangeFilterMapRec(seq, i + 1, end)

\* mutant: a range that reaches past the end contributes nothing
RangeFilterMapWholeOrNothing(seq, r) ==
    IF r.end > Len(seq) THEN <<>> ELSE RangeFilterMapRec(seq, r.start, r.end)

\* r.filter_map(|i| seq.get(i))
RangeFilterMap(seq, r) == RangeFilterMapRec(seq, r.start, r.end)

RECURSIVE FlatMap(_, _)
\* pos.iter().cloned().flat_map(|r| r.filter_map(|i| seq.get(i)))
FlatMap(seq, pos) ==
    IF Len(pos) = 0 THEN <<>>
    ELSE RangeFilterMap(seq, pos[1]) \o FlatMap(seq, Tail(pos))

extract_chars(line, char_pos) == CollectString(FlatMap(chars(line), char_pos))

extract_bytes(line, byte_pos) == from_utf8_lossy(FlatMap(line, byte_pos))

extract_fields(record, field_pos) == FlatMap(record, field_pos)

(***************************************************************************)
(* The lines, records and position lists tried.                            *)
(***************************************************************************)
\* 'b', U+00E1 (two bytes) and U+20AC (three bytes)
CharSet == {98, 225, 8364}

Seqs(S, n) == UNION {[1..k -> S] : k \in 0..n}

Lines == {CollectString(cs) : cs \in Seqs(CharSet, MaxLine)}

Records == Seqs({CollectString(cs) : cs \in Seqs(CharSet, 1)}, MaxFields)

\* the ranges a PositionList holds: start < end
Ranges == {r \in [start : 0..MaxPos, end : 0..MaxPos] : r.start < r.end}

PosLists == Seqs(Ranges, MaxRanges)

InitExtract ==
    /\ pc = "start"
    /\ range = <<>>
    /\ ret = NoRet
    /\ \E kind \in {"Fields", "Bytes", "Chars"}, pos \in PosLists :
          extract = [kind |-> kind, pos |-> pos]
    /\ input \in (IF extract.kind = "Fields" THEN Records ELSE Lines)
    /\ out = <<>>
    /\ files = <<>>
    /\ fi = 0
    /\ li = 0
    /\ stdout = <<>>
    /\ stderr = <<>>
    /\ result = "none"

ExtractChars ==
    /\ pc = "start" /\ extract.kind = "Chars"
    /\ pc' = "extracted"
    /\ out' = extract_chars(input, extract.pos)
    /\ UNCHANGED <<range, ret, extract, input, files, fi, li, stdout, stderr, result>>

ExtractBytes ==
    /\ pc = "start" /\ extract.kind = "Bytes"
    /\ pc' = "extracted"
    /\ out' = extract_bytes(input, extract.pos)
    /\ UNCHANGED <<range, ret, extract, input, files, fi, li, stdout, stderr, result>>

ExtractFields ==
    /\ pc = "start" /\ extract.kind = "Fields"
    /\ pc' = "extracted"
    /\ out' = extract_fields(input, extract.pos)
    /\ UNCHANGED <<range, ret, extract, input, files, fi, li, stdout, stderr, result>>

NextExtract == ExtractChars \/ ExtractBytes \/ ExtractFields

SpecExtract == InitExtract /\ [][NextExtract]_vars

(***************************************************************************)
(* What the claims about the extractors speak of.                          *)
(***************************************************************************)
Extracted == pc = "extracted"

Min(a, b) == IF a < b THEN a ELSE b

\* the elements of seq at the in-bounds indices of r, ascending
InBounds(seq, r) == SubSeq(seq, r.start + 1, Min(r.end, Len(seq)))

RECURSIVE Selected(_, _)
\* the concatenation of the in-bounds parts, in the order of the ranges
Selected(seq, pos) ==
    IF Len(pos) = 0 THEN <<>>
    ELSE Selected(seq, SubSeq(pos, 1, Len(pos) - 1))
             \o InBounds(seq, pos[Len(pos)])

\* C2: extract_chars and extract_fields give the concatenation, over the
\* ranges in the order given, of the elements at the in-bounds indices of
\* each range; out-of-bounds indices give nothing, repeats repeat.
C2_SelectsInBoundsInOrder ==
    /\ (Extracted /\ extract.kind = "Chars")
          => out = CollectString(Selected(chars(input), extract.pos))
    /\ (Extracted /\ extract.kind = "Fields")
          => out = Selected(input, extract.pos)

C2_Witness ==
    /\ Extracted /\ extract.kind = "Chars"
    /\ Len(extract.pos) = 2
    /\ extract.pos[1].start > extract.pos[2].start
    /\ extract.pos[1].start < Len(chars(input))
    /\ extract.pos[1].end > Len(chars(input))
    /\ Len(chars(out)) = 2

\* the byte span [start, end) of the k-th character of a line
CharSpan(line, k) ==
    LET cs == chars(line)
        before == Len(CollectString(SubSeq(cs, 1, k - 1)))
    IN [start |-> before, end |-> before + Len(Utf8Encode(cs[k]))]

\* r covers some but not all bytes of the k-th character of the line
Cuts(r, line, k) ==
    LET sp == CharSpan(line, k)
    IN /\ r.start < sp.end /\ sp.start < r.end
       /\ r.start > sp.start \/ r.end < sp.end

CutsSome(r, line) == \E k \in 1..Len(chars(line)) : Cuts(r, line, k)

HasMarker(s) == \E i \in 1..(Len(s) - 2) : SubSeq(s, i, i + 2) = ReplacementBytes

\* C9 as stated: when some range of the position list cuts a multi-byte
\* character, the string extract_bytes returns contains U+FFFD.
C9_AnyCutGivesMarker ==
    (/\ Extracted /\ extract.kind = "Bytes"
     /\ \E i \in 1..Len(extract.pos) : CutsSome(extract.pos[i], input))
        => HasMarker(out)

\* the characters of the line whose bytes r covers entirely, in order
WhollyCovered(r, line) ==
    LET cs == chars(line)
        keep(k) == LET sp == CharSpan(line, k)
                   IN r.start <= sp.start /\ sp.end <= r.end
        F[k \in 0..Len(cs)] ==
            IF k = 0 THEN <<>>
            ELSE IF keep(k) THEN Append(F[k - 1], cs[k]) ELSE F[k - 1]
    IN F[Len(cs)]

\* how many selected bytes are the tail of a character r starts inside of:
\* each is a stray continuation byte
StrayBytes(r, line) ==
    LET inside == {k \in 1..Len(chars(line)) :
                      LET sp == CharSpan(line, k)
                      IN sp.start < r.start /\ r.start < sp.end}
    IN IF inside = {} THEN 0
       ELSE LET sp == CharSpan(line, CHOOSE k \in inside : TRUE)
            IN Min(r.end, sp.end) - r.start

\* whether r, having covered the head of a character, ends inside of it
Truncates(r, line) ==
    \E k \in 1..Len(chars(line)) :
        LET sp == CharSpan(line, k)
        IN r.start <= sp.start /\ sp.start < r.end /\ r.end < sp.end

\* n times U+FFFD
Markers(n) == [i \in 1..n |-> 65533]

\* C9 (amended): when the position list is one range and it cuts a
\* multi-byte character, the returned string contains U+FFFD in place of
\* the cut-up bytes: one for each stray continuation byte at its start,
\* then the characters the range covers entirely, then one for a character
\* truncated at its end.
C9_SingleCutGivesMarker ==
    (/\ Extracted /\ extract.kind = "Bytes"
     /\ Len(extract.pos) = 1
     /\ CutsSome(extract.pos[1], input))
        => /\ HasMarker(out)
           /\ chars(out) =
                 Markers(StrayBytes(extract.pos[1], input))
                     \o WhollyCovered(extract.pos[1], input)
                     \o Markers(IF Truncates(extract.pos[1], input) THEN 1 ELSE 0)

C9_Witness ==
    /\ Extracted /\ extract.kind = "Bytes"
    /\ Len(extract.pos) = 1
    /\ CutsSome(extract.pos[1], input)
    /\ WhollyCovered(extract.pos[1], input) # <<>>
    /\ HasMarker(out)

(***************************************************************************)
(* run.  A file of config.files is what opening it gives (open) and, when  *)
(* it opens, what reading it gives item by item (reads): a line, or a read *)
(* error.                                                                  *)
(***************************************************************************)

\* the default of --delim, a tab
Delimiter == 9

\* "\u{e1}\tb"
SampleLine == <<195, 161, Delimiter, 98>>

ReadItems == {[ok |-> TRUE, line |-> SampleLine], [ok |-> FALSE, line |-> <<>>]}

FileKinds ==
    {[open |-> FALSE, reads |-> <<>>]}
        \cup {[open |-> TRUE, reads |-> rs] : rs \in Seqs(ReadItems, MaxReads)}

InitRun ==
    /\ pc = "next_file"
    /\ range = <<>>
    /\ ret = NoRet
    /\ \E kind \in {"Fields", "Bytes", "Chars"} :
          extract = [kind |-> kind, pos |-> <<[start |-> 0, end |-> 1]>>]
    /\ input = <<>>
    /\ out = <<>>
    /\ files \in Seqs(FileKinds, MaxFiles)
    /\ fi = 1
    /\ li = 0
    /\ stdout = <<>>
    /\ stderr = <<>>
    /\ result = "none"

\* match open(&filename) { Err(e) => eprintln!(..), Ok(file) => .. }
RunOpen ==
    /\ pc = "next_file" /\ fi <= Len(files)
    /\ IF files[fi].open
       THEN /\ pc' = "reading"
            /\ li' = 1
            /\ UNCHANGED <<fi, stderr>>
       ELSE /\ stderr' = Append(stderr, fi)
            /\ fi' = fi + 1
            /\ UNCHANGED <<pc, li>>
    /\ UNCHANGED <<range, ret, extract, input, out, files, stdout, result>>

\* one turn of a loop over the lines or records of the open file: the item
\* unwrapped with `?` (an Err returns it from run), otherwise the
\* extracted text printed
ReadAndEmit(item, text) ==
    /\ IF item.ok
       THEN /\ stdout' = Append(stdout, text)
            /\ li' = li + 1
            /\ UNCHANGED <<pc, result>>
       ELSE /\ pc' = "returned"
            /\ result' = "Err"
            /\ UNCHANGED <<stdout, li>>
    /\ UNCHANGED <<range, ret, extract, input, out, files, fi, stderr>>

\* for record in reader.records(): the record is the line split at the
\* delimiter, the selected fields are joined by it
RunFieldsRecord ==
    /\ pc = "reading" /\ li <= Len(files[fi].reads)
    /\ extract.kind = "Fields"
    /\ LET item == files[fi].reads[li]
       IN ReadAndEmit(item,
              join(extract_fields(split(item.line, Delimiter), extract.pos),
                   <<Delimiter>>))

\* for line in file.lines(), Bytes
RunBytesLine ==
    /\ pc = "reading" /\ li <= Len(files[fi].reads)
    /\ extract.kind = "Bytes"
    /\ LET item == files[fi].reads[li]
       IN ReadAndEmit(item, extract_bytes(item.line, extract.pos))

\* for line in file.lines(), Chars
RunCharsLine ==
    /\ pc = "reading" /\ li <= Len(files[fi].reads)
    /\ extract.kind = "Chars"
    /\ LET item == files[fi].reads[li]
       IN ReadAndEmit(item, extract_chars(item.line, extract.pos))

\* the lines or records of the file are exhausted: on to the next file
RunEndOfFile ==
    /\ pc = "reading" /\ li > Len(files[fi].reads)
    /\ pc' = "next_file"
    /\ fi' = fi + 1
    /\ UNCHANGED <<range, ret, extract, input, out, files, li, stdout, stderr, result>>

\* config.files is exhausted: Ok(())
RunReturnOk ==
    /\ pc = "next_file" /\ fi > Len(files)
    /\ pc' = "returned"
    /\ result' = "Ok"
    /\ UNCHANGED <<range, ret, extract, input, out, files, fi, li, stdout, stderr>>

NextRun ==
    \/ RunOpen
    \/ RunFieldsRecord
    \/ RunBytesLine
    \/ RunCharsLine
    \/ RunEndOfFile
    \/ RunReturnOk

SpecRun == InitRun /\ [][NextRun]_vars

\* C8: run keeps going after a per-file failure, of opening or of reading:
\* it does not return before every file of config.files has been opened.
C8_EveryFileOpened ==
    (pc = "returned") => fi >= Len(files)

====
